---- MODULE Spec2Model ----
(***************************************************************************)
(* A model of baton.c: the metadata listing, search and modification       *)
(* operations of the iRODS client layer, the query descriptor builders,    *)
(* the chunked query executor do_query and the result row serializer       *)
(* make_json_objects.                                                      *)
(*                                                                         *)
(* The remote catalog (rcGenQuery, rcModAVUMetadata) is the environment:   *)
(* every remote call is answered with a status and, for a successful       *)
(* query, a page whose column count is the number of selected columns.     *)
(* Allocation by calloc and jansson is taken to succeed (the code asserts  *)
(* as much at lines 276, 364, 439, 488).                                   *)
(*                                                                         *)
(* A C pointer that may be NULL is a record with a field null; a path is   *)
(* the sequence of its components, so that dirname and basename are        *)
(* computed and not assumed.                                               *)
(***************************************************************************)
EXTENDS Integers, Sequences, FiniteSets, TLC

\* ------------------------------------------------------------------ bounds

\* Remote query calls modelled within one do_query execution.
MaxCalls == 3
\* Rows of one page (the code asks for pages of max_rows = 10).
MaxRows == 2
\* Conditions modelled beyond the ceiling of a descriptor's condition arrays.
MaxOverflow == 1

\* --------------------------------------------------------------- constants

\* The size of the condition arrays of a descriptor (baton.h; the header's
\* value is scaled down here, the arrays are sized by it at lines 382-383).
MAX_NUM_CONDITIONALS == 4

\* rodsErrorTable.h
CAT_NO_ROWS_FOUND == -808000

\* Statuses of a failed remote call other than CAT_NO_ROWS_FOUND
\* (CAT_INVALID_ARGUMENT, CAT_NO_ACCESS_PERMISSION).
ErrorStatuses == {-816000, -818000}

\* max_rows of list_metadata and search_metadata.
max_rows == 10

\* baton.h; the opcode names are kept symbolic.
META_ADD_NAME == "META_ADD_NAME"
META_REM_NAME == "META_REM_NAME"

\* The metadata_op values handed in by callers.
MetadataOps == {"META_ADD", "META_REM"}

ObjTypes  == {"UNKNOWN_OBJ_T", "DATA_OBJ_T", "COLL_OBJ_T", "LOCAL_FILE_T"}
ObjStates == {"UNKNOWN_ST", "EXIST_ST", "NOT_EXIST_ST"}

\* Canonical paths, as sequences of components: /z/f.
OutPaths == {<<"z", "f">>}

RodsPaths == [objType : ObjTypes, objState : ObjStates, outPath : OutPaths]

\* A char* argument: NULL, or a string.
NullStr == [null |-> TRUE, str |-> ""]
Str(s)  == [null |-> FALSE, str |-> s]

\* attr_name of list_metadata: absent, empty, or a name.
AttrFilters == {NullStr, Str(""), Str("a")}

\* attr_name and attr_value of search_metadata and modify_metadata.
AttrNames  == {"a"}
AttrValues == {"v"}
AttrUnits  == {"", "u"}

\* ------------------------------------------------------------ JSON values

\* A json_t* holding an array: NULL, or the sequence of its elements.
JNull      == [null |-> TRUE, items |-> <<>>]
JArray(s)  == [null |-> FALSE, items |-> s]

\* jansson json_array_extend: -1 and no change when either is not an array.
json_array_extend_status(array, other) ==
    IF array.null \/ other.null THEN -1 ELSE 0

json_array_extend(array, other) ==
    IF array.null \/ other.null THEN array
    ELSE JArray(array.items \o other.items)

\* jansson json_object_set_new on an object kept as a sequence of
\* <<key, value>> pairs: replaces the value of an existing key, else appends.
json_object_set_new(obj, key, value) ==
    IF \E k \in 1..Len(obj) : obj[k][1] = key
    THEN [k \in 1..Len(obj) |-> IF obj[k][1] = key THEN <<key, value>> ELSE obj[k]]
    ELSE Append(obj, <<key, value>>)

\* dirname(3) and basename(3) on a canonical absolute path.
dirname(path)  == IF Len(path) = 0 THEN <<>> ELSE SubSeq(path, 1, Len(path) - 1)
basename(path) == IF Len(path) = 0 THEN "/" ELSE path[Len(path)]

\* A path rendered as text, per component.
RECURSIVE PathText(_)
PathText(path) ==
    IF Len(path) = 0 THEN ""
    ELSE PathText(SubSeq(path, 1, Len(path) - 1)) \o "/" \o path[Len(path)]

PathStr(path) == IF Len(path) = 0 THEN "/" ELSE PathText(path)

\* ------------------------------------------------------ query descriptors

NullQueryInput ==
    [null |-> TRUE, id |-> 0, selectInp |-> <<>>, maxRows |-> 0,
     continueInx |-> 0, sqlCondInp |-> <<>>]

\* make_query_input: the first num_columns of columns, the row limit, a
\* continuation token of 0 and no conditions. id names the allocation.
make_query_input(id, maxRows, num_columns, columns) ==
    [null |-> FALSE, id |-> id,
     selectInp |-> [i \in 1..num_columns |-> columns[i]],
     maxRows |-> maxRows, continueInx |-> 0, sqlCondInp |-> <<>>]

\* The clause of one condition: snprintf(expr, "%s '%s'", op, name).
CompileClause(operator, value) == operator \o " '" \o value \o "'"

query_cond(column, operator, value) ==
    [column |-> column, operator |-> operator, value |-> value]

\* add_query_conds: appends the first num_conds conditions of conds, each
\* at index sqlCondInp.len, which it then increments. There is no test of
\* the index against MAX_NUM_CONDITIONALS.
RECURSIVE AppendConds(_, _, _, _)
AppendConds(sqlCondInp, i, num_conds, conds) ==
    IF i > num_conds THEN sqlCondInp
    ELSE AppendConds(Append(sqlCondInp,
                            [inx |-> conds[i].column,
                             value |-> CompileClause(conds[i].operator,
                                                     conds[i].value)]),
                     i + 1, num_conds, conds)

add_query_conds(query_input, num_conds, conds) ==
    [query_input EXCEPT !.sqlCondInp = AppendConds(@, 1, num_conds, conds)]

\* prepare_obj_list: collection and data object name from dirname and
\* basename of the path, and the attribute name when attr_name is not NULL.
prepare_obj_list(query_input, rods_path, attr_name) ==
    LET cn == query_cond("COL_COLL_NAME", "=", PathStr(dirname(rods_path.outPath)))
        dn == query_cond("COL_DATA_NAME", "=", basename(rods_path.outPath))
        an == query_cond("COL_META_DATA_ATTR_NAME", "=", attr_name.str)
    IN IF ~attr_name.null
       THEN add_query_conds(query_input, 3, <<cn, dn, an>>)
       ELSE add_query_conds(query_input, 2, <<cn, dn>>)

\* prepare_col_list
prepare_col_list(query_input, rods_path, attr_name) ==
    LET cn == query_cond("COL_COLL_NAME", "=", PathStr(rods_path.outPath))
        an == query_cond("COL_META_COLL_ATTR_NAME", "=", attr_name.str)
    IN IF ~attr_name.null
       THEN add_query_conds(query_input, 2, <<cn, an>>)
       ELSE add_query_conds(query_input, 1, <<cn>>)

\* prepare_obj_search
prepare_obj_search(query_input, attr_name, attr_value) ==
    LET an == query_cond("COL_META_DATA_ATTR_NAME", "=", attr_name)
        av == query_cond("COL_META_DATA_ATTR_VALUE", "=", attr_value)
    IN add_query_conds(query_input, 2, <<an, av>>)

\* prepare_col_search
prepare_col_search(query_input, attr_name, attr_value) ==
    LET an == query_cond("COL_META_COLL_ATTR_NAME", "=", attr_name)
        av == query_cond("COL_META_COLL_ATTR_VALUE", "=", attr_value)
    IN add_query_conds(query_input, 2, <<an, av>>)

\* ---------------------------------------------------------- query results

\* The genQueryOut_t* local of a caller before any remote call, and NULL.
UninitOut == [state |-> "uninit", rowCnt |-> 0, attriCnt |-> 0,
              sqlResult |-> <<>>, continueInx |-> 0]
NullOut   == [UninitOut EXCEPT !.state = "null"]

\* The text of column col in row number row of an execution, and the
\* terminator that pads a value to its stride.
Cell(col, row) == [col |-> col, row |-> row]
NUL            == Cell("", 0)

\* The stride sqlResult[i].len of a column: the text and its terminator.
Stride == 2

\* One column of a page: the values of rows base+1..base+n, each in a run
\* of Stride slots.
ColumnRun(col, base, n) ==
    [k \in 1..(n * Stride) |->
        IF (k - 1) % Stride = 0 THEN Cell(col, base + ((k - 1) \div Stride) + 1)
        ELSE NUL]

\* The page the server returns for a descriptor: one sqlResult per selected
\* column, n rows, and the continuation token.
ServerPage(query_input, base, n, token) ==
    [state |-> "page", rowCnt |-> n,
     attriCnt |-> Len(query_input.selectInp),
     sqlResult |-> [i \in 1..Len(query_input.selectInp) |->
                      [len |-> Stride,
                       value |-> ColumnRun(query_input.selectInp[i], base, n)]],
     continueInx |-> token]

\* RowObject with every column set under labels[0].
RowObject_first_label(query_output, lbls, row) ==
    LET Set(obj, i) ==
            json_object_set_new(obj, lbls[1],
                query_output.sqlResult[i].value[row * query_output.sqlResult[i].len + 1])
        F[i \in 0..query_output.attriCnt] ==
            IF i = 0 THEN <<>> ELSE Set(F[i - 1], i)
    IN F[query_output.attriCnt]

\* The inner loop of make_json_objects, lines 494-506: for column i the
\* value starts at offset row * sqlResult[i].len and is set under labels[i].
\* The number of labels is not an argument and is not tested.
RowObject(query_output, lbls, row) ==
    LET Set(obj, i) ==
            json_object_set_new(obj, lbls[i],
                query_output.sqlResult[i].value[row * query_output.sqlResult[i].len + 1])
        F[i \in 0..query_output.attriCnt] ==
            IF i = 0 THEN <<>> ELSE Set(F[i - 1], i)
    IN F[query_output.attriCnt]

\* make_json_objects with the row loop ending one row early.
make_json_objects_drops_last_row(query_output, lbls) ==
    JArray([r \in 1..(query_output.rowCnt - 1) |->
               RowObject(query_output, lbls, r - 1)])

\* make_json_objects: one object per row, in row order.
make_json_objects(query_output, lbls) ==
    JArray([r \in 1..query_output.rowCnt |-> RowObject(query_output, lbls, r - 1)])

\* ----------------------------------------------------- metadata mutation

\* metadata_op_name
metadata_op_name(mop) ==
    IF mop = "META_ADD" THEN META_ADD_NAME
    ELSE IF mop = "META_REM" THEN META_REM_NAME
    ELSE "NULL"

\* map_mod_args with the unused slots left out.
map_mod_args_six_slots(in) ==
    << metadata_op_name(in.op), in.type_arg, PathStr(in.rods_path.outPath),
       in.attr_name, in.attr_value, in.attr_units >>

\* map_mod_args: arg0..arg9 of modAVUMetadataInp_t.
map_mod_args(in) ==
    << metadata_op_name(in.op), in.type_arg, PathStr(in.rods_path.outPath),
       in.attr_name, in.attr_value, in.attr_units, "", "", "", "" >>

\* data_object_path_to_json and collection_path_to_json
data_object_path_to_json(path) ==
    << <<"collection", PathStr(dirname(path))>>,
       <<"data_object", basename(path)>> >>

collection_path_to_json(path) == << <<"collection", PathStr(path)>> >>

\* ------------------------------------------------------------------ state

VARIABLES
    pc,             \* where the running operation stands
    op,             \* the operation the caller invoked
    rods_path,      \* its rodsPath_t argument
    attr_name,      \* its attr_name argument (a char*)
    attr_value,     \* its attr_value argument
    query_input,    \* the descriptor in use (genQueryInp_t*)
    query_output,   \* do_query's genQueryOut_t*
    labels,         \* do_query's labels
    results,        \* do_query's accumulator
    chunk_num,      \* do_query's chunk_num
    status,         \* do_query's status
    dq_ret,         \* what do_query returned
    phase,          \* which query of the operation do_query is running
    search_results, \* search_metadata's results
    json_result,    \* rods_path_to_json's result before the AVUs
    ret,            \* the json_t* the operation returned
    ret_status,     \* the int modify_metadata returned
    mod_op,         \* modify_metadata's op argument
    attr_units,     \* modify_metadata's attr_units argument
    given,          \* the conditions handed to add_query_conds so far
    anon_args,      \* the argument vector handed to rcModAVUMetadata
    mod_calls,      \* rcModAVUMetadata calls made
    calls,          \* rcGenQuery calls of this do_query execution
    served,         \* rows of the successful pages of this execution
    logged,         \* the status do_query's error path reported
    col_ret,        \* what the collection search returned
    obj_ret,        \* what the object search returned
    col_served,     \* rows the server sent the collection search
    obj_served,     \* rows the server sent the object search
    heap            \* per descriptor made: how often it was freed

vars == << pc, op, rods_path, attr_name, attr_value, query_input, query_output,
           labels, results, chunk_num, status, dq_ret, phase, search_results,
           json_result, ret, ret_status, mod_op, attr_units, given, anon_args,
           mod_calls, calls, served,
           logged, col_ret, obj_ret, col_served, obj_served, heap >>

inputVars  == << op, rods_path, attr_name, attr_value >>
queryVars  == << query_input, query_output, labels, results, chunk_num, status,
                 dq_ret, phase, calls, served, logged >>
searchVars == << search_results, col_ret, obj_ret, col_served, obj_served >>
modVars    == << ret_status, mod_op, attr_units, anon_args, mod_calls >>
apiVars    == << given >>

\* A rodsPath_t as init_rods_path leaves it: zeroed but for the path.
NoPath == [objType |-> "UNKNOWN_OBJ_T", objState |-> "UNKNOWN_ST",
           outPath |-> <<"z", "f">>]

Init ==
    /\ pc = "idle"
    /\ op = "none"
    /\ rods_path = NoPath
    /\ attr_name = NullStr
    /\ attr_value = ""
    /\ query_input = NullQueryInput
    /\ query_output = UninitOut
    /\ labels = <<>>
    /\ results = JNull
    /\ chunk_num = 0
    /\ status = 0
    /\ dq_ret = JNull
    /\ phase = "none"
    /\ search_results = JNull
    /\ json_result = <<>>
    /\ ret = JNull
    /\ ret_status = 0
    /\ mod_op = "none"
    /\ attr_units = ""
    /\ given = <<>>
    /\ anon_args = <<>>
    /\ mod_calls = 0
    /\ calls = <<>>
    /\ served = 0
    /\ logged = 0
    /\ col_ret = JNull
    /\ obj_ret = JNull
    /\ col_served = 0
    /\ obj_served = 0
    /\ heap = <<>>

\* ---------------------------------------------------------------- helpers

\* free_query_input: one more free of the descriptor's allocation.
free_query_input(h, qi) == [h EXCEPT ![qi.id] = @ + 1]

\* The entry of do_query with a descriptor just made: an empty accumulator,
\* chunk_num 0 and the caller's uninitialised genQueryOut_t*.
EnterDoQuery(h, qi, lbls, ph) ==
    /\ query_input' = qi
    /\ query_output' = UninitOut
    /\ labels' = lbls
    /\ results' = JArray(<<>>)
    /\ chunk_num' = 0
    /\ status' = 0
    /\ dq_ret' = JNull
    /\ phase' = ph
    /\ calls' = <<>>
    /\ served' = 0
    /\ logged' = 0
    /\ heap' = Append(h, 0)
    /\ pc' = "do_query"

AvuLabels    == <<"attribute", "value", "units">>
SearchLabels == <<"collection", "data_object">>
SearchColumns == <<"COL_COLL_NAME", "COL_DATA_NAME">>

DataAvuColumns == <<"COL_META_DATA_ATTR_NAME", "COL_META_DATA_ATTR_VALUE",
                    "COL_META_DATA_ATTR_UNITS">>
CollAvuColumns == <<"COL_META_COLL_ATTR_NAME", "COL_META_COLL_ATTR_VALUE",
                    "COL_META_COLL_ATTR_UNITS">>

\* list_metadata up to its call of do_query: TRUE when it reaches the call.
ListReachesQuery(path) ==
    /\ path.objState # "NOT_EXIST_ST"
    /\ path.objType \in {"DATA_OBJ_T", "COLL_OBJ_T"}

\* The descriptor list_metadata builds for a data object or a collection.
ListQueryInput(id, path, attr) ==
    IF path.objType = "DATA_OBJ_T"
    THEN prepare_obj_list(make_query_input(id, max_rows, 3, DataAvuColumns),
                          path, attr)
    ELSE prepare_col_list(make_query_input(id, max_rows, 3, CollAvuColumns),
                          path, attr)

\* -------------------------------------------------------------- operations

\* list_metadata(conn, rods_path, attr_name), lines 214-257 and 262-267.
list_metadata(path, attr) ==
    /\ pc = "idle"
    /\ op' = "list_metadata"
    /\ rods_path' = path
    /\ attr_name' = attr
    /\ UNCHANGED << attr_value, searchVars, modVars, apiVars, json_result >>
    /\ IF ListReachesQuery(path)
       THEN /\ EnterDoQuery(heap, ListQueryInput(Len(heap) + 1, path, attr),
                            AvuLabels, "list")
            /\ UNCHANGED ret
       ELSE /\ ret' = JNull
            /\ pc' = "done"
            /\ UNCHANGED << queryVars, heap >>

\* list_metadata after do_query, lines 257-260.
list_metadata_return ==
    /\ pc = "list_ret"
    /\ op = "list_metadata"
    /\ heap' = free_query_input(heap, query_input)
    /\ ret' = dq_ret
    /\ pc' = "done"
    /\ UNCHANGED << inputVars, queryVars, searchVars, modVars, apiVars, json_result >>

\* rods_path_to_json(conn, rods_path) up to do_query inside list_metadata,
\* lines 525-551 with 214-257.
rods_path_to_json(path) ==
    /\ pc = "idle"
    /\ op' = "rods_path_to_json"
    /\ rods_path' = path
    /\ UNCHANGED << attr_name, attr_value, searchVars, modVars, apiVars >>
    /\ IF path.objType \notin {"DATA_OBJ_T", "COLL_OBJ_T"}
       THEN /\ ret' = JNull
            /\ pc' = "done"
            /\ UNCHANGED << queryVars, heap, json_result >>
       ELSE /\ json_result' = IF path.objType = "DATA_OBJ_T"
                              THEN data_object_path_to_json(path.outPath)
                              ELSE collection_path_to_json(path.outPath)
            /\ IF ListReachesQuery(path)
               THEN /\ EnterDoQuery(heap, ListQueryInput(Len(heap) + 1, path, NullStr),
                                    AvuLabels, "list")
                    /\ UNCHANGED ret
               ELSE /\ ret' = JNull
                    /\ pc' = "done"
                    /\ UNCHANGED << queryVars, heap >>

\* rods_path_to_json after do_query: the tail of list_metadata, then
\* lines 552-566.
rods_path_to_json_return ==
    /\ pc = "list_ret"
    /\ op = "rods_path_to_json"
    /\ heap' = free_query_input(heap, query_input)
    /\ ret' = IF dq_ret.null THEN JNull
              ELSE JArray(json_object_set_new(json_result, "avus", dq_ret.items))
    /\ pc' = "done"
    /\ UNCHANGED << inputVars, queryVars, searchVars, modVars, apiVars, json_result >>

\* search_metadata with both columns selected in the collection search.
search_metadata_selects_both(name, value) ==
    /\ pc = "idle"
    /\ op' = "search_metadata"
    /\ attr_name' = Str(name)
    /\ attr_value' = value
    /\ search_results' = JArray(<<>>)
    /\ EnterDoQuery(heap, prepare_col_search(
                        make_query_input(Len(heap) + 1, max_rows, 2, SearchColumns),
                        name, value),
                    SearchLabels, "search_col")
    /\ UNCHANGED << rods_path, col_ret, obj_ret, col_served, obj_served,
                    modVars, apiVars, json_result, ret >>

\* search_metadata(conn, attr_name, attr_value) up to the first do_query,
\* lines 269-284.
search_metadata(name, value) ==
    /\ pc = "idle"
    /\ op' = "search_metadata"
    /\ attr_name' = Str(name)
    /\ attr_value' = value
    /\ search_results' = JArray(<<>>)
    /\ EnterDoQuery(heap, prepare_col_search(
                        make_query_input(Len(heap) + 1, max_rows, 1, SearchColumns),
                        name, value),
                    SearchLabels, "search_col")
    /\ UNCHANGED << rods_path, col_ret, obj_ret, col_served, obj_served,
                    modVars, apiVars, json_result, ret >>

\* search_metadata between its two queries, lines 284-292.
search_metadata_collections ==
    /\ pc = "search_col_ret"
    /\ col_ret' = dq_ret
    /\ col_served' = served
    /\ search_results' = json_array_extend(search_results, dq_ret)
    /\ EnterDoQuery(free_query_input(heap, query_input), prepare_obj_search(
                        make_query_input(Len(heap) + 1, max_rows, 1 + 1, SearchColumns),
                        attr_name.str, attr_value),
                    SearchLabels, "search_obj")
    /\ UNCHANGED << inputVars, obj_ret, obj_served, modVars, apiVars, json_result, ret >>

\* search_metadata_return without the free of the second descriptor.
search_metadata_return_leaks ==
    /\ pc = "search_obj_ret"
    /\ obj_ret' = dq_ret
    /\ obj_served' = served
    /\ search_results' = json_array_extend(search_results, dq_ret)
    /\ ret' = search_results'
    /\ pc' = "done"
    /\ UNCHANGED << inputVars, queryVars, col_ret, col_served, modVars, apiVars,
                    json_result, heap >>

\* search_metadata after its second query, lines 292-297.
search_metadata_return ==
    /\ pc = "search_obj_ret"
    /\ obj_ret' = dq_ret
    /\ obj_served' = served
    /\ search_results' = json_array_extend(search_results, dq_ret)
    /\ heap' = free_query_input(heap, query_input)
    /\ ret' = search_results'
    /\ pc' = "done"
    /\ UNCHANGED << inputVars, queryVars, col_ret, col_served, modVars, apiVars,
                    json_result >>

\* The continuation tokens the server hands out: 0 ends the result.
Tokens == {0, 1, 2}

\* The statuses rcModAVUMetadata answers with.
ModStatuses == {0} \cup ErrorStatuses

\* modify_metadata(conn, rods_path, op, attr_name, attr_value, attr_units),
\* lines 303-359. The switch is on objType alone.
modify_metadata(path, mop, name, value, units, answer) ==
    /\ pc = "idle"
    /\ op' = "modify_metadata"
    /\ rods_path' = path
    /\ attr_name' = Str(name)
    /\ attr_value' = value
    /\ mod_op' = mop
    /\ attr_units' = units
    /\ IF path.objType \in {"DATA_OBJ_T", "COLL_OBJ_T"}
       THEN LET type_arg == IF path.objType = "DATA_OBJ_T" THEN "-d" ELSE "-C"
                named_args == [op |-> mop, type_arg |-> type_arg,
                               rods_path |-> path, attr_name |-> name,
                               attr_value |-> value, attr_units |-> units]
            IN /\ anon_args' = map_mod_args(named_args)
               /\ mod_calls' = mod_calls + 1
               /\ ret_status' = answer
       ELSE /\ ret_status' = -1
            /\ UNCHANGED << anon_args, mod_calls >>
    /\ pc' = "done"
    /\ UNCHANGED << queryVars, searchVars, apiVars, json_result, ret, heap >>

\* ---------------------------------------------------------------- do_query

\* The loop test of do_query, line 441.
LoopTest == chunk_num = 0 \/ query_output.continueInx > 0

\* The test reads query_output->continueInx: with chunk_num > 0 and a NULL
\* query_output it dereferences NULL.
LoopTestFaults == chunk_num # 0 /\ query_output.state = "null"

\* What do_query finds in query_output after a remote call that did not
\* succeed: rcGenQuery either left the pointer alone or set it to NULL.
OutputsAfterFailure == {query_output, NullOut}

\* do_query's return to its caller.
ReturnFromDoQuery(value) ==
    /\ dq_ret' = value
    /\ pc' = IF phase = "list" THEN "list_ret"
             ELSE IF phase = "search_col" THEN "search_col_ret"
             ELSE "search_obj_ret"

\* One pass of the loop whose remote call succeeds, lines 442 and 450-464:
\* the token is copied to the descriptor and the page's objects are
\* appended to the accumulator.
do_query_page(n, token) ==
    /\ pc = "do_query"
    /\ ~LoopTestFaults
    /\ LoopTest
    /\ Len(calls) < MaxCalls
    /\ LET page  == ServerPage(query_input, served, n, token)
           chunk == make_json_objects(page, labels)
       IN /\ query_output' = page
          /\ query_input' = [query_input EXCEPT !.continueInx = page.continueInx]
          /\ results' = json_array_extend(results, chunk)
          /\ chunk_num' = chunk_num + 1
          /\ status' = json_array_extend_status(results, chunk)
          /\ calls' = Append(calls, [sent |-> query_input.continueInx,
                                     status |-> 0, token |-> token, rows |-> n])
          /\ served' = served + n
    /\ UNCHANGED << inputVars, searchVars, modVars, apiVars, json_result, ret, heap,
                    labels, dq_ret, phase, logged, pc >>

\* One pass whose remote call answers CAT_NO_ROWS_FOUND, lines 442-446:
\* nothing but a log line, and chunk_num is not advanced.
do_query_no_rows ==
    /\ pc = "do_query"
    /\ ~LoopTestFaults
    /\ LoopTest
    /\ Len(calls) < MaxCalls
    /\ status' = CAT_NO_ROWS_FOUND
    /\ query_output' \in OutputsAfterFailure
    /\ calls' = Append(calls, [sent |-> query_input.continueInx,
                               status |-> CAT_NO_ROWS_FOUND, token |-> 0,
                               rows |-> 0])
    /\ UNCHANGED << inputVars, searchVars, modVars, apiVars, json_result, ret, heap,
                    query_input, labels, results, chunk_num, dq_ret, phase,
                    served, logged, pc >>

\* do_query_error with the accumulator returned in place of NULL.
do_query_error_returns_partial(answer) ==
    /\ pc = "do_query"
    /\ ~LoopTestFaults
    /\ LoopTest
    /\ Len(calls) < MaxCalls
    /\ status' = answer
    /\ query_output' \in OutputsAfterFailure
    /\ calls' = Append(calls, [sent |-> query_input.continueInx,
                               status |-> answer, token |-> 0, rows |-> 0])
    /\ logged' = answer
    /\ ReturnFromDoQuery(results)
    /\ UNCHANGED << inputVars, searchVars, modVars, apiVars, json_result, ret,
                    heap, query_input, labels, results, chunk_num, phase,
                    served >>

\* One pass whose remote call fails, lines 442, 447-448 and 469-483: the
\* status is reported, the accumulator is released and NULL is returned.
do_query_error(answer) ==
    /\ pc = "do_query"
    /\ ~LoopTestFaults
    /\ LoopTest
    /\ Len(calls) < MaxCalls
    /\ status' = answer
    /\ query_output' \in OutputsAfterFailure
    /\ calls' = Append(calls, [sent |-> query_input.continueInx,
                               status |-> answer, token |-> 0, rows |-> 0])
    /\ logged' = answer
    /\ results' = JNull
    /\ ReturnFromDoQuery(JNull)
    /\ UNCHANGED << inputVars, searchVars, modVars, apiVars, json_result, ret, heap,
                    query_input, labels, chunk_num, phase, served >>

\* The loop test fails, line 467: the accumulator is returned.
do_query_return ==
    /\ pc = "do_query"
    /\ ~LoopTestFaults
    /\ ~LoopTest
    /\ ReturnFromDoQuery(results)
    /\ UNCHANGED << inputVars, searchVars, modVars, apiVars, json_result, ret, heap,
                    query_input, query_output, labels, results, chunk_num,
                    status, phase, calls, served, logged >>

\* The loop test dereferences NULL.
do_query_fault ==
    /\ pc = "do_query"
    /\ LoopTestFaults
    /\ pc' = "crashed"
    /\ UNCHANGED << inputVars, searchVars, modVars, apiVars, json_result, ret, heap,
                    queryVars >>

\* ------------------------------------------- the descriptor API on its own

\* The conditions a caller of add_query_conds hands in, in batches of one
\* or two.
CondPool == { query_cond("COL_COLL_NAME", "=", "/z"),
              query_cond("COL_DATA_NAME", "like", "f") }
CondBatches == { <<c>> : c \in CondPool } \cup
               { <<c, d>> : c \in CondPool, d \in CondPool }

\* A caller makes a descriptor with make_query_input, lines 361-390.
call_make_query_input ==
    /\ pc = "idle"
    /\ op' = "add_query_conds"
    /\ query_input' = make_query_input(Len(heap) + 1, max_rows, 1, SearchColumns)
    /\ heap' = Append(heap, 0)
    /\ pc' = "api"
    /\ UNCHANGED << rods_path, attr_name, attr_value, query_output, labels,
                    results, chunk_num, status, dq_ret, phase, calls, served,
                    logged, searchVars, modVars, apiVars, json_result, ret >>

\* A store at an index from MAX_NUM_CONDITIONALS on is outside the arrays
\* that make_query_input allocated.
WritesPastArrays(qi) == Len(qi.sqlCondInp) > MAX_NUM_CONDITIONALS

\* A caller adds a batch of conditions, lines 407-429. Past the arrays the
\* stores are undefined: they land in the heap beyond them, or the process
\* faults.
call_add_query_conds(batch) ==
    /\ pc = "api"
    /\ Len(query_input.sqlCondInp) + Len(batch)
          <= MAX_NUM_CONDITIONALS + MaxOverflow
    /\ given' = given \o batch
    /\ LET after == add_query_conds(query_input, Len(batch), batch)
       IN \/ /\ query_input' = after
             /\ pc' = "api"
          \/ /\ WritesPastArrays(after)
             /\ query_input' = after
             /\ pc' = "crashed"
    /\ UNCHANGED << inputVars, query_output, labels, results, chunk_num,
                    status, dq_ret, phase, calls, served, logged, searchVars,
                    modVars, json_result, ret, heap >>

\* The caller frees the descriptor, lines 392-405.
call_free_query_input ==
    /\ pc = "api"
    /\ heap' = free_query_input(heap, query_input)
    /\ pc' = "done"
    /\ UNCHANGED << inputVars, queryVars, searchVars, modVars, apiVars, json_result,
                    ret >>

\* The operation has returned (or the process has died): the next
\* invocation starts from a fresh state.
NextInvocation ==
    /\ pc \in {"done", "crashed"}
    /\ pc' = "idle"
    /\ op' = "none"
    /\ rods_path' = NoPath
    /\ attr_name' = NullStr
    /\ attr_value' = ""
    /\ query_input' = NullQueryInput
    /\ query_output' = UninitOut
    /\ labels' = <<>>
    /\ results' = JNull
    /\ chunk_num' = 0
    /\ status' = 0
    /\ dq_ret' = JNull
    /\ phase' = "none"
    /\ search_results' = JNull
    /\ json_result' = <<>>
    /\ ret' = JNull
    /\ ret_status' = 0
    /\ mod_op' = "none"
    /\ attr_units' = ""
    /\ given' = <<>>
    /\ anon_args' = <<>>
    /\ mod_calls' = 0
    /\ calls' = <<>>
    /\ served' = 0
    /\ logged' = 0
    /\ col_ret' = JNull
    /\ obj_ret' = JNull
    /\ col_served' = 0
    /\ obj_served' = 0
    /\ heap' = <<>>

Next ==
    \/ \E path \in RodsPaths, attr \in AttrFilters : list_metadata(path, attr)
    \/ list_metadata_return
    \/ \E path \in RodsPaths : rods_path_to_json(path)
    \/ rods_path_to_json_return
    \/ \E name \in AttrNames, value \in AttrValues : search_metadata(name, value)
    \/ search_metadata_collections
    \/ search_metadata_return
    \/ \E path \in RodsPaths, mop \in MetadataOps, name \in AttrNames,
          value \in AttrValues, units \in AttrUnits, answer \in ModStatuses :
          modify_metadata(path, mop, name, value, units, answer)
    \/ \E n \in 1..MaxRows, token \in Tokens : do_query_page(n, token)
    \/ do_query_no_rows
    \/ \E answer \in ErrorStatuses : do_query_error(answer)
    \/ do_query_return
    \/ do_query_fault
    \/ call_make_query_input
    \/ \E batch \in CondBatches : call_add_query_conds(batch)
    \/ call_free_query_input
    \/ NextInvocation

Spec == Init /\ [][Next]_vars

\* ------------------------------------------------------------------ claims

\* do_query has returned and its caller has not yet gone on.
Returned == pc \in {"list_ret", "search_col_ret", "search_obj_ret"}

\* The record of row number row of an execution: the text of each
\* column under its label, in column order.
ExpectedRecord(cols, lbls, row) ==
    [i \in 1..Len(cols) |-> <<lbls[i], Cell(cols[i], row)>>]

ExpectedRecords(cols, lbls, n) ==
    [r \in 1..n |-> ExpectedRecord(cols, lbls, r)]

RECURSIVE SumRows(_)
SumRows(log) ==
    IF Len(log) = 0 THEN 0
    ELSE SumRows(SubSeq(log, 1, Len(log) - 1)) + log[Len(log)].rows

IsFailure(st) == st # 0 /\ st # CAT_NO_ROWS_FOUND

\* Every call so far succeeded, each page but the last with a token > 0
\* and the last with token 0.
AllPagesSucceeded ==
    /\ Len(calls) >= 1
    /\ \A i \in 1..Len(calls) :
          /\ calls[i].status = 0
          /\ (i < Len(calls) => calls[i].token > 0)
    /\ calls[Len(calls)].token = 0

\* C1: when the server answers N >= 1 successful pages, the last alone
\* with token 0, do_query makes no further call and returns the rows of the
\* pages in arrival order, then row order: as many records as the pages'
\* row counts add up to, none dropped, duplicated or reordered.
C1_PagesConcatenatedInOrder ==
    AllPagesSucceeded =>
        /\ pc = "do_query" => ~LoopTest
        /\ Returned =>
              /\ ~dq_ret.null
              /\ Len(dq_ret.items) = SumRows(calls)
              /\ dq_ret.items =
                    ExpectedRecords(query_input.selectInp, labels, SumRows(calls))

C1_Witness ==
    /\ Returned
    /\ AllPagesSucceeded
    /\ Len(calls) >= 2
    /\ calls[1].rows # calls[2].rows
    /\ Len(dq_ret.items) >= 3

\* C2: after a CAT_NO_ROWS_FOUND answer to the first page request the loop
\* of do_query is over, and do_query returns an empty sequence, not NULL.
C2_NoRowsFirstPageReturnsEmpty ==
    (Len(calls) >= 1 /\ calls[1].status = CAT_NO_ROWS_FOUND) =>
        /\ pc = "do_query" => ~LoopTest
        /\ Returned => dq_ret = JArray(<<>>)

\* C3: a status that is neither 0 nor CAT_NO_ROWS_FOUND, on any page, is
\* the last remote call of the execution; do_query has returned NULL, the
\* accumulated records are gone, and the status reported is that status.
C3_FailureAbortsAllOrNothing ==
    \A i \in 1..Len(calls) :
        IsFailure(calls[i].status) =>
            /\ i = Len(calls)
            /\ pc # "do_query"
            /\ dq_ret.null
            /\ results.null
            /\ logged = calls[i].status

C3_Witness ==
    /\ Returned
    /\ Len(calls) >= 2
    /\ calls[1].status = 0
    /\ calls[1].rows >= 1
    /\ IsFailure(calls[Len(calls)].status)
    /\ dq_ret.null

\* C4: when either query of search_metadata fails, search_metadata returns
\* NULL, never the records of the other query alone.
C4_SearchReturnsNoPartialResult ==
    (pc = "done" /\ op = "search_metadata" /\ (col_ret.null \/ obj_ret.null))
        => ret.null

InvalidTarget(path) ==
    \/ path.objState = "NOT_EXIST_ST"
    \/ path.objType \notin {"DATA_OBJ_T", "COLL_OBJ_T"}

\* C5: for a path that does not exist or is neither data object nor
\* collection, list_metadata, modify_metadata and rods_path_to_json build
\* no descriptor, make no remote call and fail.
C5_InvalidTargetTouchesNothing ==
    (op \in {"list_metadata", "modify_metadata", "rods_path_to_json"}
       /\ InvalidTarget(rods_path)) =>
        /\ heap = <<>>
        /\ calls = <<>>
        /\ mod_calls = 0
        /\ pc = "done"
        /\ ret.null
        /\ op = "modify_metadata" => ret_status < 0

\* C6: the vector handed to rcModAVUMetadata has 10 slots: the opcode name
\* of op, "-d" for a data object or "-C" for a collection, the path, the
\* attribute, the value, the units, and four empty strings.
C6_ModArgsTenSlots ==
    mod_calls > 0 =>
        /\ rods_path.objType \in {"DATA_OBJ_T", "COLL_OBJ_T"}
        /\ Len(anon_args) = 10
        /\ anon_args[1] = (IF mod_op = "META_ADD" THEN META_ADD_NAME
                           ELSE META_REM_NAME)
        /\ anon_args[2] = (IF rods_path.objType = "DATA_OBJ_T" THEN "-d" ELSE "-C")
        /\ anon_args[3] = PathStr(rods_path.outPath)
        /\ anon_args[4] = attr_name.str
        /\ anon_args[5] = attr_value
        /\ anon_args[6] = attr_units
        /\ \A k \in 7..10 : anon_args[k] = ""

C6_Witness ==
    /\ mod_calls = 1
    /\ rods_path.objType = "COLL_OBJ_T"
    /\ mod_op = "META_REM"
    /\ attr_units = "u"
    /\ anon_args[2] = "-C"

\* C7: the descriptor list_metadata builds for a data object has 2
\* conditions when attr_name is NULL or empty and 3 when it is non-empty,
\* and an empty attr_name adds no condition on the attribute name.
C7_EmptyFilterListsAll ==
    (op = "list_metadata" /\ rods_path.objType = "DATA_OBJ_T"
       /\ ~query_input.null) =>
        /\ Len(query_input.sqlCondInp) =
              (IF attr_name.null \/ attr_name.str = "" THEN 2 ELSE 3)
        /\ (attr_name.null \/ attr_name.str = "") =>
              \A k \in 1..Len(query_input.sqlCondInp) :
                  query_input.sqlCondInp[k].inx # "COL_META_DATA_ATTR_NAME"

ExpectedConds(conds) ==
    [k \in 1..Len(conds) |->
        [inx |-> conds[k].column,
         value |-> conds[k].operator \o " '" \o conds[k].value \o "'"]]

\* C9: a descriptor holds the compiled clauses in the order given, each
\* under its column id, and never more than MAX_NUM_CONDITIONALS of them.
C9_ConditionsWithinCeiling ==
    pc = "api" =>
        /\ query_input.sqlCondInp = ExpectedConds(given)
        /\ Len(query_input.sqlCondInp) <= MAX_NUM_CONDITIONALS

\* C10: when both queries succeed search_metadata returns the records of
\* the collection search in their order, each with the one label
\* collection, then those of the object search in their order, each with
\* the labels collection and data_object.
C10_SearchConcatenatesTagged ==
    (pc = "done" /\ op = "search_metadata" /\ ~col_ret.null /\ ~obj_ret.null) =>
        /\ ~ret.null
        /\ ret.items =
              ExpectedRecords(<<"COL_COLL_NAME">>, <<"collection">>, col_served)
              \o ExpectedRecords(<<"COL_COLL_NAME", "COL_DATA_NAME">>,
                                 <<"collection", "data_object">>, obj_served)

C10_Witness ==
    /\ pc = "done"
    /\ op = "search_metadata"
    /\ ~col_ret.null
    /\ ~obj_ret.null
    /\ col_served >= 2
    /\ obj_served >= 1
    /\ Len(ret.items) = col_served + obj_served

\* Successful pages among the calls of the execution.
RECURSIVE SuccessfulPages(_)
SuccessfulPages(log) ==
    IF Len(log) = 0 THEN 0
    ELSE SuccessfulPages(SubSeq(log, 1, Len(log) - 1))
         + (IF log[Len(log)].status = 0 THEN 1 ELSE 0)

\* C11: in one do_query execution the first request carries token 0,
\* every later request carries the token of the response just before it
\* and is made only when that token is > 0, none follows a successful
\* response with token 0, and on return there were as many requests as
\* successful pages.
C11_RequestsFollowTokens ==
    /\ Len(calls) >= 1 => calls[1].sent = 0
    /\ \A i \in 2..Len(calls) :
          /\ calls[i].sent = calls[i - 1].token
          /\ calls[i - 1].token > 0
    /\ \A i \in 1..Len(calls) :
          (calls[i].status = 0 /\ calls[i].token = 0) => i = Len(calls)
    /\ (Returned /\ ~dq_ret.null) => Len(calls) = SuccessfulPages(calls)

\* C12: a descriptor made by list_metadata or search_metadata is not freed
\* while do_query runs on it or has yet to hand back to its caller, is the
\* one do_query was given, is never freed twice, and is freed once the
\* operation has returned: none stays allocated.
C12_DescriptorsFreedOnce ==
    op \in {"list_metadata", "search_metadata", "rods_path_to_json"} =>
        /\ \A id \in 1..Len(heap) : heap[id] <= 1
        /\ (pc = "do_query" \/ Returned) =>
              /\ ~query_input.null
              /\ query_input.id = Len(heap)
              /\ heap[query_input.id] = 0
              /\ \A id \in 1..(Len(heap) - 1) : heap[id] = 1
        /\ pc = "done" => \A id \in 1..Len(heap) : heap[id] = 1
        /\ (pc = "done" /\ op = "search_metadata") => Len(heap) = 2

C12_Witness ==
    /\ pc = "done"
    /\ op = "search_metadata"
    /\ heap = <<1, 1>>
    /\ col_ret.null
    /\ ~obj_ret.null
    /\ Len(obj_ret.items) >= 1

====
